---- MODULE Spec2Model ----
(***************************************************************************)
(* Model of the recording-session lifecycle and transcript accumulator of  *)
(* the App component (src/unnamed/part_000 holds two revisions of it,      *)
(* lines 23-206 and lines 235-587; `version` says which one is running).   *)
(*                                                                         *)
(* The browser event loop is modelled as it schedules the code: every      *)
(* action is one macrotask (a click, a promise settled by the platform, a  *)
(* WebSocket callback) together with all the microtask continuations it    *)
(* makes runnable.  An `await` on a promise that is still pending suspends *)
(* the async function; the action that settles the promise resumes it.     *)
(* A state setter called from a WebSocket callback queues its update;      *)
(* React runs the queued updates of the log and of the Draft, and shows the  *)
(* appState set, in a later task (action Render); a click is rendered       *)
(* within its own task.  appState and errorMessage hold the value set last; *)
(* renderedState is the appState of the last render, which the toggle       *)
(* button is bound to.                                                      *)
(*                                                                         *)
(* Objects created by the k-th call of startSession (its MediaStream, its  *)
(* AudioContext, its connect() promise / remote session, its               *)
(* ScriptProcessorNode) are all named k; a ref holding 0 is null.          *)
(***************************************************************************)
EXTENDS Integers, Sequences, FiniteSets, TLC

\* ---- bounds of the model ----
\* Spec (the whole App): calls of startSession, suspended calls of
\* stopSession, characters of the Draft, segments ever committed, queued
\* updates, audio frames waiting for one promise.
MaxStarts == 2
MaxStops == 2
MaxDraftLen == 1
MaxSegments == 1
MaxPending == 1
MaxFrames == 1
\* SpecLife and SpecLifeFair (the session lifecycle): MaxStarts and MaxStops.
\* SpecStale (the lifecycle with a third start):
StaleStarts == 3
StaleStops == 1
\* SpecData (the transcript accumulator):
DataStarts == 1
DataDraftLen == 2
DataSegments == 2
DataPending == 2
\* SpecLog (the log and the utilities that read it):
LogStarts == 1
LogDraftLen == 1
LogSegments == 2
LogPending == 2

VARIABLES
    version,            \* 1: App at lines 23-206, 2: App at lines 235-587
    appState,           \* useState<AppState>: the value set last
    renderedState,      \* appState as last rendered: what the toggle is bound to
    transcriptions,     \* useState<TranscriptionSegment[]>
    currentDraft,       \* useState('')
    errorMessage,       \* useState<string | null>
    audioContextRef,    \* useRef<AudioContext | null>
    streamRef,          \* useRef<MediaStream | null>
    sessionPromiseRef,  \* useRef<Promise<any> | null>
    scriptProcessorRef, \* useRef<ScriptProcessorNode | null>
    sessions,           \* the objects each startSession call created
    nStarts,            \* number of startSession calls so far
    stops,              \* the suspended stopSession calls, oldest first
    nextId,             \* crypto.randomUUID(): the next fresh identifier
    pending,            \* the queued updates of transcriptions and currentDraft
    draftBase,          \* the value of currentDraft the queued updates start from
    turnFrags,          \* history: fragments received since the Draft was last reset
    last                \* history: the event handled by the last step

vars == <<version, appState, renderedState, transcriptions, currentDraft, errorMessage,
          audioContextRef, streamRef, sessionPromiseRef, scriptProcessorRef,
          sessions, nStarts, stops, nextId, pending, draftBase, turnFrags, last>>

\* The calls of startSession, numbered; no specification allows more than
\* StaleStarts of them.
Ids == 1..StaleStarts

IDLE == "IDLE"
CONNECTING == "CONNECTING"
LISTENING == "LISTENING"
AppStates == {IDLE, CONNECTING, LISTENING, "ERROR"}

NULL == "null"
MicError == "mic-permission-message"
SessionError == "session-error-message"

\* Text fragments a server message may carry.  A string is a sequence of
\* symbols: a white-space character, or a run of characters without white space.
Fragments == {<<"a">>, <<"\t">>, <<"a", " ">>}

\* String(undefined), what `prev + text` appends when text is undefined.
Undefined == <<"undefined">>

\* A LiveServerMessage: serverContent.inputTranscription present or not
\* (hasText), its optional field text a string or absent (defined, text), and
\* serverContent.turnComplete (tc).
Messages(b) ==
    [hasText : {TRUE}, defined : {TRUE}, text : b.fragments, tc : BOOLEAN]
    \cup [hasText : b.untexted, defined : {FALSE}, text : {<<>>}, tc : BOOLEAN]

\* message.serverContent.inputTranscription.text as `prev + text` converts it.
FragmentText(msg) == IF msg.defined THEN msg.text ELSE Undefined

\* What each specification bounds, and the messages it receives: the
\* specifications of the accumulator leave out the messages without text, the
\* specification of the log also the fragments with white space.
FullBounds ==
    [starts |-> MaxStarts, stops |-> MaxStops, draftLen |-> MaxDraftLen,
     segments |-> MaxSegments, pending |-> MaxPending,
     fragments |-> Fragments, untexted |-> BOOLEAN, frames |-> MaxFrames]
LifeBounds ==
    [starts |-> MaxStarts, stops |-> MaxStops]
StaleBounds ==
    [starts |-> StaleStarts, stops |-> StaleStops]
DataBounds ==
    [starts |-> DataStarts, draftLen |-> DataDraftLen,
     segments |-> DataSegments, pending |-> DataPending,
     fragments |-> Fragments, untexted |-> {FALSE}]
LogBounds ==
    [starts |-> LogStarts, draftLen |-> LogDraftLen,
     segments |-> LogSegments, pending |-> LogPending,
     fragments |-> {<<"a">>, <<"b">>}, untexted |-> {FALSE}]

\* ---- String.prototype.trim and concatenation ----
\* The white space and line terminators trim() strips: space, tab, line feed,
\* carriage return, form feed, then U+000B (vertical tab), U+00A0 (no-break
\* space), U+FEFF and U+1680 written as the characters themselves.  trim()
\* also strips U+2000-U+200A, U+2028, U+2029, U+202F, U+205F and U+3000, which
\* a string of this module cannot hold.
WhiteSpace == {" ", "\t", "\n", "\r", "\f", "", " ", "﻿", " "}

IsSpace(c) == c \in WhiteSpace

RECURSIVE TrimStart(_)
TrimStart(s) ==
    IF s = <<>> THEN <<>>
    ELSE IF IsSpace(Head(s)) THEN TrimStart(Tail(s)) ELSE s

RECURSIVE TrimEnd(_)
TrimEnd(s) ==
    IF s = <<>> THEN <<>>
    ELSE IF IsSpace(s[Len(s)]) THEN TrimEnd(SubSeq(s, 1, Len(s) - 1)) ELSE s

Trim(s) == TrimEnd(TrimStart(s))

RECURSIVE Flatten(_)
Flatten(fs) == IF fs = <<>> THEN <<>> ELSE Head(fs) \o Flatten(Tail(fs))

\* ---- the objects of one startSession call ----
\* frames: the audio frames whose send waits for the promise of connect(), in
\* the order the capture callbacks registered them; an entry is TRUE when a
\* stopSession call was already waiting for the promise.
NoSession ==
    [start |-> "none", mic |-> "none", ctx |-> "none", ws |-> "none",
     promise |-> "none", proc |-> "none", frames |-> <<>>]

\* The event recorded by a step: which handler ran (op), the SessionState it
\* found (pre), the message it carried (hasText, text, tc), the Draft a
\* turn-complete found (found), the answer to confirm() (confirmed), and whether
\* a stopSession call ran to its last line (done) or ended by an exception
\* (threw) during the step; doneBy holds, for each call that ran to its last
\* line, who invoked it (the toggle or onerror) and in which SessionState;
\* doneFrom holds the SessionState in which the
\* calls that ran to their last line had been invoked.  The outputs of the
\* step: whether navigator.clipboard.writeText was called (wrote) and the text
\* handed to it (clipboard), the
\* notice shown by alert() (alert), the number of files offered for download
\* (files), what became of the audio frames the step handled (frame), and the
\* SessionState in which a frame was transmitted (sentIn).
Event(op) ==
    [op |-> op, pre |-> appState, text |-> <<>>, hasText |-> FALSE,
     defined |-> FALSE, tc |-> FALSE, eager |-> FALSE, queue |-> <<>>,
     found |-> <<>>, confirmed |-> FALSE, done |-> FALSE, threw |-> FALSE,
     doneFrom |-> {}, doneBy |-> {}, wrote |-> FALSE, clipboard |-> <<>>,
     alert |-> "none",
     files |-> 0, frame |-> "none", sentIn |-> "none"]

StopEvent(op, m) ==
    [Event(op) EXCEPT !.done = m.done, !.threw = m.threw, !.doneFrom = m.doneFrom,
                      !.doneBy = m.doneBy]

\* The part of the state stopSession reads and writes, as one record; cur is
\* the SessionState in which the call being run was invoked and by who
\* invoked it.
Machine ==
    [appState |-> appState, acRef |-> audioContextRef, stRef |-> streamRef,
     sessRef |-> sessionPromiseRef, spRef |-> scriptProcessorRef,
     sessions |-> sessions, stops |-> stops, done |-> FALSE, threw |-> FALSE,
     cur |-> appState, by |-> "toggle", doneFrom |-> {}, doneBy |-> {}]

Commit(m) ==
    /\ appState' = m.appState
    /\ audioContextRef' = m.acRef
    /\ streamRef' = m.stRef
    /\ sessionPromiseRef' = m.sessRef
    /\ scriptProcessorRef' = m.spRef
    /\ sessions' = m.sessions
    /\ stops' = m.stops

\* ---- stopSession (lines 41-60 and 254-275) ----
\* session.close(): closes the WebSocket of an open session; the close event
\* follows later.  On a socket that is already closing or closed it does nothing.
CloseWs(w) == IF w = "open" THEN "closing" ELSE w

\* Lines 54-59 / 268-274: `if (sessionPromiseRef.current) { const session = await
\* sessionPromiseRef.current; session.close(); sessionPromiseRef.current = null; }
\* setAppState(IDLE)`.  A resolved promise lets the call run on in the same task,
\* a rejected one makes the await throw (nothing catches it), a pending one
\* suspends the call.
StopSessionPart(m) ==
    IF m.sessRef = 0
    THEN [m EXCEPT !.appState = IDLE, !.done = TRUE, !.doneFrom = @ \cup {m.cur},
                          !.doneBy = @ \cup {<<m.by, m.cur>>}]
    ELSE LET p == m.sessRef IN
         CASE m.sessions[p].promise = "resolved" ->
                [m EXCEPT !.sessions[p].ws = CloseWs(@), !.sessRef = 0,
                          !.appState = IDLE, !.done = TRUE,
                          !.doneFrom = @ \cup {m.cur},
                          !.doneBy = @ \cup {<<m.by, m.cur>>}]
           [] m.sessions[p].promise = "rejected" ->
                [m EXCEPT !.threw = TRUE]
           [] OTHER ->
                [m EXCEPT !.stops = Append(@, [pc |-> "awaitSession", obj |-> p,
                                               from |-> m.cur, by |-> m.by])]

\* Lines 52-59 / 265-274: the continuation after `await audioContextRef.current.close()`.
StopAfterCtx(m) == StopSessionPart([m EXCEPT !.acRef = 0])

\* Lines 58-59 / 271-274: the continuation after `await sessionPromiseRef.current`
\* resolved with session p.
StopAfterSession(m, p) ==
    [m EXCEPT !.sessions[p].ws = CloseWs(@), !.sessRef = 0,
              !.appState = IDLE, !.done = TRUE, !.doneFrom = @ \cup {m.cur},
                          !.doneBy = @ \cup {<<m.by, m.cur>>}]

\* Lines 42-51 / 255-264: the synchronous start of stopSession, up to its first
\* await.  close() on a context that is already closed rejects; on one that an
\* overlapping stopSession is still closing the platform decides (dupRejects).
StopSync(m, dupRejects) ==
    LET m1 == IF m.spRef = 0 THEN m
              ELSE [m EXCEPT !.sessions[m.spRef].proc = "disconnected", !.spRef = 0]
        m2 == IF m1.stRef = 0 THEN m1
              ELSE [m1 EXCEPT !.sessions[m1.stRef].mic = "stopped", !.stRef = 0]
        c == m2.acRef
    IN  IF c = 0 THEN StopSessionPart(m2)
        ELSE CASE m2.sessions[c].ctx = "running" ->
                    [m2 EXCEPT !.sessions[c].ctx = "closing",
                               !.stops = Append(@, [pc |-> "awaitCtx", obj |-> c,
                                                    from |-> m.cur, by |-> m.by])]
               [] m2.sessions[c].ctx = "closing" /\ ~dupRejects ->
                    [m2 EXCEPT !.stops = Append(@, [pc |-> "awaitCtx", obj |-> c,
                                                    from |-> m.cur, by |-> m.by])]
               [] OTHER ->
                    [m2 EXCEPT !.threw = TRUE]

\* Whether the outcome of close() is the platform's choice in this state.
CloseIsDup(m) == m.acRef # 0 /\ m.sessions[m.acRef].ctx = "closing"

DupChoices == IF CloseIsDup(Machine) THEN BOOLEAN ELSE {FALSE}

\* The suspended stopSession calls that wait at pc for object k, and the others.
Waiting(ss, pc, k) == SelectSeq(ss, LAMBDA t : t.pc = pc /\ t.obj = k)

NotWaiting(ss, pc, k) == SelectSeq(ss, LAMBDA t : ~(t.pc = pc /\ t.obj = k))

NumWaiting(ss, pc, k) == Len(Waiting(ss, pc, k))

\* The calls ws run on, oldest first, each from its own await.
RECURSIVE ResumeAfterCtx(_, _)
ResumeAfterCtx(m, ws) ==
    IF ws = <<>> THEN m
    ELSE ResumeAfterCtx(StopAfterCtx([m EXCEPT !.cur = Head(ws).from, !.by = Head(ws).by]), Tail(ws))

RECURSIVE ResumeAfterSession(_, _, _)
ResumeAfterSession(m, p, ws) ==
    IF ws = <<>> THEN m
    ELSE ResumeAfterSession(StopAfterSession([m EXCEPT !.cur = Head(ws).from, !.by = Head(ws).by], p),
                            p, Tail(ws))


Init ==
    /\ version \in {1, 2}
    /\ appState = IDLE
    /\ renderedState = IDLE
    /\ transcriptions = <<>>
    /\ currentDraft = <<>>
    /\ errorMessage = NULL
    /\ audioContextRef = 0
    /\ streamRef = 0
    /\ sessionPromiseRef = 0
    /\ scriptProcessorRef = 0
    /\ sessions = [k \in Ids |-> NoSession]
    /\ nStarts = 0
    /\ stops = <<>>
    /\ nextId = 1
    /\ pending = <<>>
    /\ draftBase = <<>>
    /\ turnFrags = <<>>
    /\ last = [op |-> "init", pre |-> IDLE, text |-> <<>>, hasText |-> FALSE,
               defined |-> FALSE, tc |-> FALSE, eager |-> FALSE, queue |-> <<>>,
     found |-> <<>>, confirmed |-> FALSE, done |-> FALSE,
               threw |-> FALSE, doneFrom |-> {}, doneBy |-> {}, wrote |-> FALSE,
               clipboard |-> <<>>, alert |-> "none", files |-> 0,
               frame |-> "none", sentIn |-> "none"]

\* ---- the transcript accumulator (onmessage, lines 96-110 and 318-341) ----
\* A call of setCurrentDraft or setTranscriptions queues an update; React runs
\* the queued updater functions when it renders the component, which for a
\* call made in a WebSocket callback is a later task.
\*   append:   setCurrentDraft(prev => prev + text)
\*   turn:     setCurrentDraft(prev => { ...setTranscriptions(...)...; return '' })
\*   setDraft: setCurrentDraft('')
\*   push:     setTranscriptions(list => [...list, segment])
Update(kind, text, id) == [kind |-> kind, text |-> text, id |-> id]

IsDraftUpdate(u) == u.kind \in {"append", "turn", "setDraft"}

IsLogUpdate(u) == u.kind = "push"

\* Line 99 / 322: prev => prev + text.
AppendFragment(prev, text) == prev \o text

CommitTurnUntrimmed(list, prev, id) ==
    IF Trim(prev) # <<>> THEN Append(list, Update("push", prev, id)) ELSE list

CommitTurnNoTrimTest(list, prev, id) ==
    IF prev # <<>> THEN Append(list, Update("push", Trim(prev), id)) ELSE list

\* Lines 102-106 / 326-337: the turn-complete updater, run on Draft prev, calls
\* setTranscriptions(list => [...list, {id, text: prev.trim(), ...}]) when
\* prev.trim() is not empty; list holds the updates queued so far.
CommitTurn(list, prev, id) ==
    IF Trim(prev) # <<>> THEN Append(list, Update("push", Trim(prev), id)) ELSE list

\* Line 107 / 338: the updater returns '' whatever prev was.
DraftAfterTurn(prev) == <<>>

\* One queued update of currentDraft, run by React on st.draft; st.pushes are
\* the setTranscriptions calls the updaters made, st.id the next fresh
\* identifier, st.found the Drafts the turn-complete updaters found.
RunDraftUpdate(st, u) ==
    CASE u.kind = "append" ->
            [st EXCEPT !.draft = AppendFragment(@, u.text)]
      [] u.kind = "turn" ->
            LET pushes == CommitTurn(st.pushes, st.draft, st.id)
            IN  [st EXCEPT !.pushes = pushes,
                           !.id = @ + Len(pushes) - Len(st.pushes),
                           !.found = Append(@, st.draft),
                           !.draft = DraftAfterTurn(@)]
      [] OTHER ->
            [st EXCEPT !.draft = <<>>]

RECURSIVE RunDraftQueue(_, _)
RunDraftQueue(st, q) ==
    IF q = <<>> THEN st ELSE RunDraftQueue(RunDraftUpdate(st, Head(q)), Tail(q))

ApplyLogUpdatePrepends(list, u) ==
    <<[id |-> u.id, text |-> u.text, type |-> "user"]>> \o list

\* One queued update of transcriptions (lines 105 / 328-336):
\* list => [...list, {id, text, timestamp, type: 'user'}].
ApplyLogUpdate(list, u) ==
    Append(list, [id |-> u.id, text |-> u.text, type |-> "user"])

RECURSIVE ApplyLogQueue(_, _)
ApplyLogQueue(list, q) ==
    IF q = <<>> THEN list ELSE ApplyLogQueue(ApplyLogUpdate(list, Head(q)), Tail(q))

\* The render that runs the queue q: the updates of transcriptions, then
\* those of currentDraft from base; the setTranscriptions calls made by the
\* turn-complete updaters during the render are applied behind the others.
Rendered(list, base, q, id) ==
    LET st == RunDraftQueue([draft |-> base, pushes |-> <<>>, id |-> id,
                             found |-> <<>>], SelectSeq(q, IsDraftUpdate))
    IN  [log |-> ApplyLogQueue(ApplyLogQueue(list, SelectSeq(q, IsLogUpdate)),
                               st.pushes),
         draft |-> st.draft, id |-> st.id, found |-> st.found]

\* ---- the start/stop toggle (line 193 and lines 531-533) ----
\* onClick={appState === LISTENING ? stopSession : startSession}
\* disabled={appState === CONNECTING}
ToggleHandler(state) ==
    IF state = CONNECTING THEN "disabled"
    ELSE IF state = LISTENING THEN "stopSession" ELSE "startSession"

StartCatchStaysConnecting ==
    /\ errorMessage' = MicError
    /\ UNCHANGED appState

\* The catch block of startSession (lines 125-128 / 360-364).
StartCatch ==
    /\ errorMessage' = MicError
    /\ appState' = IDLE

\* startSession up to `await getUserMedia` (lines 62-70 / 277-290).  The
\* statements before the await are inside the try: where one of them throws
\* (navigator.mediaDevices undefined outside a secure context, `process`
\* undefined, the GoogleGenAI constructor) the catch block runs in the same
\* task; otherwise the call is suspended at the await.
StartSession(b) ==
    /\ nStarts < b.starts
    /\ nStarts' = nStarts + 1
    /\ \E thrown \in BOOLEAN :
          IF thrown
          THEN /\ sessions' = [sessions EXCEPT ![nStarts + 1].start = "failed"]
               /\ StartCatch
          ELSE /\ sessions' = [sessions EXCEPT ![nStarts + 1].start = "awaitMic"]
               /\ appState' = CONNECTING
               /\ errorMessage' = NULL
    /\ renderedState' = appState'
    /\ last' = Event("click")
    /\ UNCHANGED <<version, transcriptions, currentDraft, audioContextRef, streamRef,
                   sessionPromiseRef, scriptProcessorRef, stops, nextId, turnFrags,
                   pending, draftBase>>

\* stopSession called from the toggle button.  Where the call reaches
\* setAppState(IDLE) within the click, the render of the click shows IDLE.
StopSession(b) ==
    /\ Len(stops) < b.stops
    /\ \E dupRejects \in DupChoices :
          LET m == StopSync(Machine, dupRejects)
          IN  /\ Commit(m)
              /\ renderedState' = IF m.done THEN m.appState ELSE renderedState
              /\ last' = StopEvent("click", m)
    /\ UNCHANGED <<version, transcriptions, currentDraft, errorMessage, nStarts,
                   nextId, turnFrags,
                   pending, draftBase>>

\* The toggle button (line 193 / 531-533): its onClick and disabled props are
\* those of the last render.
ClickToggle(b) ==
    \/ /\ ToggleHandler(renderedState) = "disabled"
       /\ last' = Event("click")
       /\ UNCHANGED <<version, appState, transcriptions, currentDraft, errorMessage,
                      audioContextRef, streamRef, sessionPromiseRef,
                      scriptProcessorRef, sessions, nStarts, stops, nextId, turnFrags,
                   pending, draftBase, renderedState>>
    \/ /\ ToggleHandler(renderedState) = "stopSession"
       /\ StopSession(b)
    \/ /\ ToggleHandler(renderedState) = "startSession"
       /\ StartSession(b)

\* getUserMedia resolves for call k and startSession runs on (lines 71-124 /
\* 291-358).  outcome: "ok", or the AudioContext constructor throws, or
\* ai.live.connect throws; a throw lands in the catch block.
MicGranted(k, outcome) ==
    /\ sessions[k].start = "awaitMic"
    /\ streamRef' = k
    /\ CASE outcome = "ok" ->
              /\ sessions' = [sessions EXCEPT ![k] =
                    [@ EXCEPT !.start = "done", !.mic = "live", !.ctx = "running",
                              !.ws = "connecting", !.promise = "pending"]]
              /\ audioContextRef' = k
              /\ sessionPromiseRef' = k
              /\ UNCHANGED <<appState, errorMessage>>
         [] outcome = "ctxThrows" ->
              /\ sessions' = [sessions EXCEPT ![k] =
                    [@ EXCEPT !.start = "failed", !.mic = "live"]]
              /\ StartCatch
              /\ UNCHANGED <<audioContextRef, sessionPromiseRef>>
         [] outcome = "connectThrows" ->
              /\ sessions' = [sessions EXCEPT ![k] =
                    [@ EXCEPT !.start = "failed", !.mic = "live", !.ctx = "running"]]
              /\ audioContextRef' = k
              /\ StartCatch
              /\ UNCHANGED sessionPromiseRef
    /\ last' = Event("micGranted")
    /\ UNCHANGED <<version, transcriptions, currentDraft, scriptProcessorRef,
                   nStarts, stops, nextId, turnFrags,
                   pending, draftBase, renderedState>>

\* getUserMedia rejects for call k (permission denied): lines 68, 125-128 /
\* 284, 360-364.
MicDenied(k) ==
    /\ sessions[k].start = "awaitMic"
    /\ sessions' = [sessions EXCEPT ![k].start = "failed"]
    /\ StartCatch
    /\ last' = Event("micDenied")
    /\ UNCHANGED <<version, transcriptions, currentDraft, audioContextRef, streamRef,
                   sessionPromiseRef, scriptProcessorRef, nStarts, stops, nextId,
                   turnFrags,
                   pending, draftBase, renderedState>>

\* What became of the frames fs when the promise they waited for resolved:
\* the continuations run in the order they were registered, so a frame
\* registered before every waiting stopSession call reaches the open socket,
\* and one registered behind such a call finds the socket closed by it.
FlushOutcome(fs) ==
    IF \E i \in 1..Len(fs) : ~fs[i] THEN "sent"
    ELSE IF fs # <<>> THEN "dropped" ELSE "none"

\* onopen of session k (lines 79-95 / 299-317), after which connect()'s promise
\* resolves: the frames that waited for it are sent (lines 88-90 / 310-312)
\* and every stopSession call suspended on it runs on.
WsOpen(k) ==
    /\ sessions[k].ws = "connecting"
    /\ sessions[k].promise = "pending"
    /\ LET n == Waiting(stops, "awaitSession", k)
           m0 == [Machine EXCEPT
                    !.appState = LISTENING,
                    !.spRef = k,
                    !.sessions[k] = [@ EXCEPT !.ws = "open", !.promise = "resolved",
                                              !.proc = "connected",
                                              !.frames = <<>>],
                    !.stops = NotWaiting(stops, "awaitSession", k)]
           m == ResumeAfterSession(m0, k, n)
           out == FlushOutcome(sessions[k].frames)
       IN  /\ Commit(m)
           /\ last' = [StopEvent("open", m) EXCEPT
                          !.frame = out,
                          !.sentIn = IF out = "sent" THEN LISTENING ELSE "none"]
    /\ UNCHANGED <<version, transcriptions, currentDraft, errorMessage, nStarts,
                   nextId, turnFrags,
                   pending, draftBase, renderedState>>

\* connect()'s promise rejects before a socket exists (no callback fires); the
\* stopSession calls suspended on it throw, and the frames that waited for it
\* are never sent.  startSession does not await it.
ConnectReject(k) ==
    /\ sessions[k].ws = "connecting"
    /\ sessions[k].promise = "pending"
    /\ sessions' = [sessions EXCEPT ![k] = [@ EXCEPT !.ws = "none", !.promise = "rejected",
                                                    !.frames = <<>>]]
    /\ stops' = NotWaiting(stops, "awaitSession", k)
    /\ last' = [Event("connectReject") EXCEPT
                    !.threw = NumWaiting(stops, "awaitSession", k) > 0,
                    !.frame = IF sessions[k].frames # <<>> THEN "dropped" ELSE "none"]
    /\ UNCHANGED <<version, appState, transcriptions, currentDraft, errorMessage,
                   audioContextRef, streamRef, sessionPromiseRef, scriptProcessorRef,
                   nStarts, nextId, turnFrags,
                   pending, draftBase, renderedState>>

MessageUpdatesTurnFirst(msg) ==
    (IF msg.tc THEN <<Update("turn", <<>>, 0)>> ELSE <<>>)
    \o (IF msg.hasText THEN <<Update("append", FragmentText(msg), 0)>> ELSE <<>>)

\* The updates one message queues: the updater of its fragment (lines 97-100 /
\* 320-323) before its turn-complete updater (lines 101-109 / 325-340).
MessageUpdates(msg) ==
    (IF msg.hasText THEN <<Update("append", FragmentText(msg), 0)>> ELSE <<>>)
    \o (IF msg.tc THEN <<Update("turn", <<>>, 0)>> ELSE <<>>)

\* With nothing queued React may run an updater when it is dispatched and
\* queue its result: the turn-complete updater then runs on the rendered
\* Draft, its setTranscriptions call is queued, and a result equal to the
\* rendered Draft queues nothing.
EagerTurn(prev, id) ==
    CommitTurn(<<>>, prev, id)
    \o (IF DraftAfterTurn(prev) # prev THEN <<Update("setDraft", <<>>, 0)>> ELSE <<>>)

\* onmessage of session k (lines 96-110 / 318-341): it only queues updates.
Message(k, msg, b) ==
    /\ sessions[k].ws \in {"open", "closing"}
    /\ \E eager \in BOOLEAN :
          /\ eager => (pending = <<>> /\ msg.tc /\ ~msg.hasText)
          /\ LET new == IF eager THEN EagerTurn(currentDraft, nextId)
                        ELSE MessageUpdates(msg)
                 id == IF eager THEN nextId + Len(SelectSeq(new, IsLogUpdate))
                       ELSE nextId
                 r == Rendered(transcriptions, draftBase, pending \o new, id)
             IN  /\ Len(pending \o new) <= b.pending
                 /\ Len(r.draft) <= b.draftLen
                 /\ \A i \in 1..Len(r.found) : Len(r.found[i]) <= b.draftLen
                 /\ r.id - 1 <= b.segments
                 /\ pending' = pending \o new
                 /\ nextId' = id
                 /\ last' = [Event("message") EXCEPT
                                 !.text = msg.text, !.hasText = msg.hasText,
                                 !.defined = msg.defined, !.tc = msg.tc,
                                 !.eager = eager,
                                 !.found = IF eager THEN <<currentDraft>> ELSE <<>>]
    /\ turnFrags' = IF msg.tc THEN <<>>
                    ELSE IF msg.hasText /\ msg.defined THEN Append(turnFrags, msg.text)
                    ELSE turnFrags
    /\ UNCHANGED <<version, appState, errorMessage, audioContextRef, streamRef,
                   sessionPromiseRef, scriptProcessorRef, sessions, nStarts, stops,
                   transcriptions, currentDraft, draftBase, renderedState>>

\* The render React schedules after a callback queued updates: it runs the
\* queued updaters of the log and of the Draft and shows the appState set last.
Render ==
    /\ pending # <<>> \/ renderedState # appState
    /\ renderedState' = appState
    /\ LET r == Rendered(transcriptions, draftBase, pending, nextId)
       IN  /\ transcriptions' = r.log
           /\ currentDraft' = r.draft
           /\ draftBase' = r.draft
           /\ nextId' = r.id
           /\ last' = [Event("render") EXCEPT !.queue = pending, !.found = r.found]
    /\ pending' = <<>>
    /\ UNCHANGED <<version, appState, errorMessage, audioContextRef, streamRef,
                   sessionPromiseRef, scriptProcessorRef, sessions, nStarts, stops,
                   turnFrags>>

\* Line 113 / 344: setErrorMessage(<the fixed session-error text>).
OnErrorMessage(prev) == SessionError

\* onerror of session k (lines 111-115 / 342-346): the message, then stopSession().
WsError(k, b) ==
    /\ sessions[k].ws \in {"connecting", "open", "closing"}
    /\ Len(stops) < b.stops
    /\ errorMessage' = OnErrorMessage(errorMessage)
    /\ \E dupRejects \in DupChoices :
          LET m == StopSync([Machine EXCEPT !.sessions[k].ws = "errored",
                                            !.by = "error"], dupRejects)
          IN  /\ Commit(m)
              /\ last' = StopEvent("error", m)
    /\ UNCHANGED <<version, transcriptions, currentDraft, nStarts, nextId, turnFrags,
                   pending, draftBase, renderedState>>

\* onclose of session k (line 116 / lines 347-349).
OnCloseStateReconnects == CONNECTING

OnCloseState == IDLE

WsClose(k) ==
    /\ sessions[k].ws \in {"open", "closing", "errored"}
    /\ sessions' = [sessions EXCEPT ![k].ws = "closed"]
    /\ appState' = OnCloseState
    /\ last' = Event("close")
    /\ UNCHANGED <<version, transcriptions, currentDraft, errorMessage,
                   audioContextRef, streamRef, sessionPromiseRef, scriptProcessorRef,
                   nStarts, stops, nextId, turnFrags,
                   pending, draftBase, renderedState>>

\* The promise of AudioContext k's close() resolves; the stopSession calls
\* suspended on it run on (lines 52-59 / 265-274).
CtxClosed(k) ==
    /\ sessions[k].ctx = "closing"
    /\ LET n == Waiting(stops, "awaitCtx", k)
           m0 == [Machine EXCEPT !.sessions[k].ctx = "closed",
                                 !.stops = NotWaiting(stops, "awaitCtx", k)]
           m == ResumeAfterCtx(m0, n)
       IN  /\ Commit(m)
           /\ last' = StopEvent("ctxClosed", m)
    /\ UNCHANGED <<version, transcriptions, currentDraft, errorMessage, nStarts,
                   nextId, turnFrags,
                   pending, draftBase, renderedState>>

\* ---- clear-all (line 156; clearAll, lines 422-427) ----
ClearedLogUnconfirmed(list, confirmed) == <<>>

\* `confirm(...) && setTranscriptions([])` / `if (confirm(...)) { setTranscriptions([]) ...`.
ClearedLog(list, confirmed) == IF confirmed THEN <<>> ELSE list

\* Lines 423-426 also call setCurrentDraft(''); line 156 never writes the Draft.
ClearedDraft(prev, confirmed) == IF confirmed /\ version = 2 THEN <<>> ELSE prev

\* A click is rendered before the handler's task ends, and that render runs
\* the updates of the click only. setTranscriptions([]) makes every update of
\* transcriptions queued before it irrelevant; setCurrentDraft('') joins the
\* updates of currentDraft still queued, which a later render runs from the
\* value they started from.
ClearedQueue(q, confirmed) ==
    IF ~confirmed THEN q
    ELSE LET drafts == SelectSeq(q, IsDraftUpdate)
         IN  IF version = 2 /\ drafts # <<>>
             THEN Append(drafts, Update("setDraft", <<>>, 0))
             ELSE drafts

ClearAll(confirmed, b) ==
    /\ Len(ClearedQueue(pending, confirmed)) <= b.pending
    /\ transcriptions' = ClearedLog(transcriptions, confirmed)
    /\ currentDraft' = ClearedDraft(currentDraft, confirmed)
    /\ pending' = ClearedQueue(pending, confirmed)
    /\ draftBase' = IF SelectSeq(pending, IsDraftUpdate) = <<>>
                    THEN ClearedDraft(draftBase, confirmed) ELSE draftBase
    /\ turnFrags' = IF confirmed /\ version = 2 THEN <<>> ELSE turnFrags
    /\ last' = [Event("clearAll") EXCEPT !.confirmed = confirmed]
    /\ UNCHANGED <<version, appState, errorMessage, audioContextRef, streamRef,
                   sessionPromiseRef, scriptProcessorRef, sessions, nStarts, stops,
                   nextId, renderedState>>

\* ---- copy-all (line 154; copyAllText, lines 367-371) ----
\* transcriptions.map(t => t.text)
Texts(list) == [i \in 1..Len(list) |-> list[i].text]

\* Array.prototype.join('\n')
RECURSIVE JoinLines(_)
JoinLines(texts) ==
    IF texts = <<>> THEN <<>>
    ELSE IF Len(texts) = 1 THEN Head(texts)
    ELSE Head(texts) \o <<"\n">> \o JoinLines(Tail(texts))

\* Where navigator.clipboard is undefined (a page outside a secure context)
\* `navigator.clipboard.writeText(...)` throws, nothing catches it, and the
\* alert() behind it is not reached.
CopyAllText ==
    /\ \E hasClipboard \in BOOLEAN :
          last' = IF hasClipboard
                  THEN [Event("copyAll") EXCEPT
                            !.wrote = TRUE,
                            !.clipboard = JoinLines(Texts(transcriptions)),
                            !.alert = "copied"]
                  ELSE Event("copyAll")
    /\ UNCHANGED <<version, appState, transcriptions, currentDraft, errorMessage,
                   audioContextRef, streamRef, sessionPromiseRef, scriptProcessorRef,
                   sessions, nStarts, stops, nextId, turnFrags,
                   pending, draftBase, renderedState>>

\* ---- export-document (saveAsWord, lines 131-141 and 373-420) ----
SaveAsWordFilesAlways(list) == 1

\* `if (transcriptions.length === 0) { alert(...); return; }`, else one link.click().
SaveAsWordFiles(list) == IF Len(list) = 0 THEN 0 ELSE 1

SaveAsWordAlert(list) == IF Len(list) = 0 THEN "nothing-to-save" ELSE "none"

SaveAsWord ==
    /\ last' = [Event("saveAsWord") EXCEPT
                    !.alert = SaveAsWordAlert(transcriptions),
                    !.files = SaveAsWordFiles(transcriptions)]
    /\ UNCHANGED <<version, appState, transcriptions, currentDraft, errorMessage,
                   audioContextRef, streamRef, sessionPromiseRef, scriptProcessorRef,
                   sessions, nStarts, stops, nextId, turnFrags,
                   pending, draftBase, renderedState>>

\* The session lifecycle: the toggle button and the callbacks of getUserMedia,
\* of the connection and of AudioContext.close().
Lifecycle(b) ==
    \/ ClickToggle(b)
    \/ \E k \in Ids, outcome \in {"ok", "ctxThrows", "connectThrows"} : MicGranted(k, outcome)
    \/ \E k \in Ids : MicDenied(k)
    \/ \E k \in Ids : WsOpen(k)
    \/ \E k \in Ids : ConnectReject(k)
    \/ \E k \in Ids : WsError(k, b)
    \/ \E k \in Ids : WsClose(k)
    \/ \E k \in Ids : CtxClosed(k)

\* The transcript accumulator: onmessage and the clear-all button.  These
\* write the log, the Draft and the queue only, so the specifications of the
\* lifecycle leave them out.
Accumulator(b) ==
    \/ \E k \in Ids, msg \in Messages(b) : Message(k, msg, b)
    \/ \E confirmed \in BOOLEAN : ClearAll(confirmed, b)

Next(b) == Lifecycle(b) \/ Accumulator(b) \/ Render

\* A session that is opened and then left alone: the toggle is pressed only
\* to start, and the connection neither fails nor closes.  The specifications
\* of the accumulator and of the log run the accumulator on such sessions.
Opening(b) ==
    \/ ToggleHandler(renderedState) = "startSession" /\ StartSession(b)
    \/ \E k \in Ids : MicGranted(k, "ok")
    \/ \E k \in Ids : WsOpen(k)

\* ---- the capture callback (onaudioprocess, lines 85-91 and 306-313) ----
\* sessionPromiseRef.current?.then(session => session.sendRealtimeInput(...)):
\* nothing without a promise or with a rejected one; with a pending one the
\* send waits for the promise and runs when connect() resolves (WsOpen); with
\* a resolved one the frame goes to that session's socket, which transmits it
\* only when open.
FrameOutcome(ref, ss) ==
    IF ref = 0 THEN "none"
    ELSE CASE ss[ref].promise = "pending" -> "queued"
           [] ss[ref].promise = "rejected" -> "none"
           [] OTHER -> IF ss[ref].ws = "open" THEN "sent" ELSE "dropped"

\* The ScriptProcessorNode of session k fires: it is connected (lines 93-94 /
\* 315-316) and its audio context is running.  The promise it reads is the
\* one in sessionPromiseRef at that moment, which a later startSession may
\* have replaced.
AudioProcess(k, b) ==
    /\ sessions[k].proc = "connected"
    /\ sessions[k].ctx = "running"
    /\ LET p == sessionPromiseRef
           out == FrameOutcome(p, sessions)
       IN  /\ out = "queued" => Len(sessions[p].frames) < b.frames
           /\ sessions' = IF out = "queued"
                          THEN [sessions EXCEPT ![p].frames =
                                  Append(@, NumWaiting(stops, "awaitSession", p) > 0)]
                          ELSE sessions
           /\ last' = [Event("audioprocess") EXCEPT
                          !.frame = out,
                          !.sentIn = IF out = "sent" THEN appState ELSE "none"]
    /\ UNCHANGED <<version, appState, transcriptions, currentDraft, errorMessage,
                   audioContextRef, streamRef, sessionPromiseRef, scriptProcessorRef,
                   nStarts, stops, nextId, turnFrags,
                   pending, draftBase, renderedState>>

Capture(b) == \E k \in Ids : AudioProcess(k, b)

\* The buttons that only read the log.  They write no state of the App, so
\* only the specifications of the whole App and of the log have them.
Utility ==
    \/ CopyAllText
    \/ SaveAsWord

NextFull == Next(FullBounds) \/ Utility \/ Capture(FullBounds)
NextLog == Opening(LogBounds) \/ Accumulator(LogBounds) \/ Render \/ Utility
NextLife == Lifecycle(LifeBounds) \/ Render
NextStale == Lifecycle(StaleBounds) \/ Render
NextData == Opening(DataBounds) \/ Accumulator(DataBounds) \/ Render

Spec == Init /\ [][NextFull]_vars
SpecLife == Init /\ [][NextLife]_vars
SpecStale == Init /\ [][NextStale]_vars
SpecData == Init /\ [][NextData]_vars
SpecLog == Init /\ [][NextLog]_vars

\* What the platform guarantees: the promise of AudioContext.close() settles,
\* and a WebSocket that failed or was closed delivers its close event.
CloseEventDue(k) == sessions[k].ws \in {"errored", "closing"} /\ WsClose(k)

Fairness ==
    /\ \A k \in Ids : WF_vars(CtxClosed(k))
    /\ \A k \in Ids : WF_vars(CloseEventDue(k))

SpecLifeFair == Init /\ [][NextLife]_vars /\ Fairness

\* ---- resources held ----
LiveMics == {k \in Ids : sessions[k].mic = "live"}
OpenSessions == {k \in Ids : sessions[k].ws \in {"connecting", "open"}}

\* ---- C1 ----
\* C1: a stopSession call that runs to completion while a non-empty Draft is
\* pending leaves the Draft empty and adds nothing to the log.
C1_StopDiscardsDraft ==
    [][(last'.done /\ currentDraft # <<>>)
         => (currentDraft' = <<>> /\ transcriptions' = transcriptions)]_vars

\* ---- C2 ----
\* C2: startSession is entered only when SessionState is Idle: a press of the
\* toggle while Connecting changes nothing, a press while Listening starts no
\* session (no startSession call, no microphone request, SessionState does not
\* become Connecting).
C2_StartOnlyFromIdle ==
    [][/\ nStarts' # nStarts => appState = IDLE
       /\ (last'.op = "click" /\ appState = CONNECTING)
            => UNCHANGED <<appState, sessions, nStarts, stops, errorMessage,
                           audioContextRef, streamRef, sessionPromiseRef,
                           scriptProcessorRef>>
       /\ (last'.op = "click" /\ appState = LISTENING)
            => /\ nStarts' = nStarts
               /\ appState' # CONNECTING
               /\ \A k \in Ids : /\ sessions'[k].start = sessions[k].start
                                 /\ sessions'[k].mic = "live" => sessions[k].mic = "live"
                                 /\ sessions'[k].ws = "connecting"
                                      => sessions[k].ws = "connecting"]_vars

\* ---- C3 ----
\* C3: under any interleaving of start/stop presses and remote open, message,
\* error and close events (no startSession call ended in its catch block), at
\* most one microphone stream and at most one remote session are open
\* (acquired and not yet released) at any time.
C3_SingleSession ==
    (\A k \in Ids : sessions[k].start # "failed" /\ sessions[k].promise # "rejected")
        => /\ Cardinality(LiveMics) <= 1
           /\ Cardinality(OpenSessions) <= 1

\* ---- C4 ----
\* C4: an error event handled while Listening sets a non-null error message in
\* the same step, the stopSession call its handler invokes does not end by an
\* exception there, and eventually a stopSession call invoked by the handler
\* of an error event while Listening runs to its last line, which sets
\* SessionState to Idle.
C4_ErrorWhileListening ==
    /\ [][(last'.op = "error" /\ appState = LISTENING)
            => (errorMessage' # NULL /\ ~last'.threw)]_vars
    /\ (last.op = "error" /\ last.pre = LISTENING)
          ~> (appState = IDLE /\ <<"error", LISTENING>> \in last.doneBy)

\* ---- C5 ----
AllReleased ==
    /\ scriptProcessorRef = 0
    /\ streamRef = 0
    /\ audioContextRef = 0
    /\ sessionPromiseRef = 0

\* C5: when a teardown step of stopSession has failed (the call ended by an
\* exception) and no other stopSession call is still suspended, every handle
\* is released and SessionState is Idle.
C5_IdleDespiteFailure ==
    (last.threw /\ stops = <<>>) => (AllReleased /\ appState = IDLE)

\* ---- C6 ----
\* C6: when the promise of ai.live.connect rejects (the session open failed
\* after the microphone was acquired), a non-null error message is set and
\* SessionState is Idle.
C6_OpenFailureForcesIdle ==
    last.op = "connectReject" => (errorMessage # NULL /\ appState = IDLE)

\* ---- C7 ----
\* C7: a startSession call that reaches getUserMedia sets Connecting; when
\* getUserMedia is then denied the step sets Idle and a non-null error message,
\* the denied call has acquired no microphone and opened no remote session, no
\* session changes, and no startSession call is made by that step (only a press
\* of the toggle makes one).
C7_MicDenied ==
    [][/\ nStarts' # nStarts
            => /\ last'.op = "click"
               /\ sessions'[nStarts'].start = "awaitMic" => appState' = CONNECTING
       /\ last'.op = "micDenied"
            => /\ appState' = IDLE
               /\ errorMessage' # NULL
               /\ nStarts' = nStarts
               /\ \A k \in Ids :
                     /\ sessions'[k].ws = sessions[k].ws
                     /\ sessions'[k].promise = sessions[k].promise
                     /\ sessions'[k].mic = sessions[k].mic
                     /\ sessions'[k].start # sessions[k].start
                          => /\ sessions'[k].ws = "none"
                             /\ sessions'[k].mic = "none"]_vars

\* getUserMedia has just been denied to the first startSession call.
C7_Witness ==
    /\ last.op = "micDenied"
    /\ last.pre = CONNECTING
    /\ sessions[1].start = "failed"
    /\ appState = IDLE
    /\ errorMessage = MicError

\* ---- C8 ----
IsPrefix(s, t) == Len(s) <= Len(t) /\ SubSeq(t, 1, Len(s)) = s

\* The texts of the setTranscriptions calls queued in q.
QueuedTexts(q) == Texts(SelectSeq(q, IsLogUpdate))

\* The trims of the Drafts ds.
Trims(ds) == [i \in 1..Len(ds) |-> Trim(ds[i])]

\* C8: each turn-complete updater that finds a Draft whose trim is non-empty
\* produces exactly one segment, whose text is the trimmed Draft, placed at the
\* end of the log behind the entries already there and the segments produced
\* before it, and leaves the Draft empty. When the updater runs as it is
\* dispatched, the segment and the reset are queued by that step.
C8_TurnCompleteCommits ==
    [][/\ (last'.op = "render" /\ pending # <<>>
            /\ \A i \in 1..Len(last'.found) : Trim(last'.found[i]) # <<>>)
            => /\ IsPrefix(transcriptions, transcriptions')
               /\ Texts(transcriptions')
                    = Texts(transcriptions) \o QueuedTexts(pending)
                        \o Trims(last'.found)
               /\ nextId' = nextId + Len(last'.found)
               /\ pending[Len(pending)].kind = "turn" => currentDraft' = <<>>
       /\ (last'.op = "message" /\ last'.eager /\ Trim(currentDraft) # <<>>)
            => /\ last'.found = <<currentDraft>>
               /\ pending' = <<Update("push", Trim(currentDraft), nextId),
                               Update("setDraft", <<>>, 0)>>
               /\ nextId' = nextId + 1]_vars

\* A render has just run a turn-complete updater that found the Draft "a "
\* and committed "a" behind the entry "aa" the log already held.
C8_Witness ==
    /\ last.op = "render"
    /\ last.found = << <<"a", " ">> >>
    /\ transcriptions = <<[id |-> 1, text |-> <<"a", "a">>, type |-> "user"],
                          [id |-> 2, text |-> <<"a">>, type |-> "user"]>>
    /\ currentDraft = <<>>

\* ---- C9 ----
\* C9: a turn-complete updater that finds an empty or all-whitespace Draft
\* produces no segment (a render that runs only such updaters adds nothing but
\* the segments already queued) and leaves the Draft empty.
C9_EmptyTurnCommitsNothing ==
    [][/\ (last'.op = "render" /\ last'.found # <<>>
            /\ \A i \in 1..Len(last'.found) :
                  \A j \in 1..Len(last'.found[i]) : last'.found[i][j] \in WhiteSpace)
            => /\ Texts(transcriptions') = Texts(transcriptions) \o QueuedTexts(pending)
               /\ nextId' = nextId
               /\ pending[Len(pending)].kind = "turn" => currentDraft' = <<>>
       /\ (last'.op = "message" /\ last'.eager
            /\ \A j \in 1..Len(currentDraft) : currentDraft[j] \in WhiteSpace)
            => /\ SelectSeq(pending', IsLogUpdate) = <<>>
               /\ nextId' = nextId
               /\ currentDraft # <<>> => pending' = <<Update("setDraft", <<>>, 0)>>]_vars

\* A render has just run a turn-complete updater that found an all-whitespace
\* Draft.
C9_Witness ==
    /\ last.op = "render"
    /\ last.found = << <<"\t", "\t">> >>
    /\ transcriptions = <<>>
    /\ currentDraft = <<>>

\* ---- C10 ----
\* C10: once every queued update has run, the Draft is the concatenation, in
\* arrival order, of the text fragments received since it was last reset (by a
\* turn-complete or a clear-all).
C10_DraftIsConcatenation ==
    pending = <<>> => currentDraft = Flatten(turnFrags)

\* ---- C11 ----
\* C11: a confirmed clear-all leaves both the transcript log and the Draft
\* empty, whatever the state it is pressed in.
C11_ClearAllEmptiesBoth ==
    [][(last'.op = "clearAll" /\ last'.confirmed)
         => (transcriptions' = <<>> /\ currentDraft' = <<>>)]_vars

\* ---- C12 ----
\* C12: a clear-all whose confirmation is declined leaves the log, the Draft,
\* SessionState and the error message unchanged.
C12_DeclinedClearAllChangesNothing ==
    [][(last'.op = "clearAll" /\ ~last'.confirmed)
         => UNCHANGED <<transcriptions, currentDraft, appState, errorMessage,
                        pending, draftBase, renderedState>>]_vars

\* A clear-all has just been declined while the log and the Draft are non-empty.
C12_Witness ==
    /\ last.op = "clearAll"
    /\ ~last.confirmed
    /\ transcriptions # <<>>
    /\ currentDraft # <<>>
    /\ appState = LISTENING

\* ---- C13 ----
\* C13: every step other than a confirmed clear-all leaves the previous log as
\* a prefix of the new log: the segments a step adds are placed last.
C13_LogAppendOnly ==
    [][~(last'.op = "clearAll" /\ last'.confirmed)
         => IsPrefix(transcriptions, transcriptions')]_vars

\* A second segment has just been committed behind the first one.
C13_Witness ==
    /\ last.op = "render"
    /\ last.found # <<>>
    /\ Len(transcriptions) = 2
    /\ transcriptions[1].id = 1
    /\ transcriptions[2].id = 2
    /\ currentDraft = <<>>

\* ---- C14 ----
\* The changes of SessionState the lifecycle allows.
AllowedTransitions ==
    {<<IDLE, CONNECTING>>, <<CONNECTING, LISTENING>>, <<CONNECTING, IDLE>>,
     <<LISTENING, IDLE>>}

\* C14: SessionState is always Idle, Connecting or Listening, and every change
\* of it is Idle to Connecting, Connecting to Listening, Connecting to Idle or
\* Listening to Idle.
C14_StateTransitions ==
    /\ [](appState \in {IDLE, CONNECTING, LISTENING})
    /\ [][appState' # appState => <<appState, appState'>> \in AllowedTransitions]_vars

\* ---- C15 ----
\* C15: when a stopSession call invoked while Listening has run to its last
\* line, every handle is null, SessionState is Idle, and of every session that
\* startSession set up the capture callback is disconnected, the microphone
\* stopped, the audio context closed and the remote session closed.
C15_StopReleasesAll ==
    LISTENING \in last.doneFrom
        => /\ AllReleased
           /\ appState = IDLE
           /\ \A k \in Ids : sessions[k].start = "done" =>
                             /\ sessions[k].proc # "connected"
                             /\ sessions[k].mic # "live"
                             /\ sessions[k].ctx # "running"
                             /\ sessions[k].ws \notin {"connecting", "open"}

\* ---- C16 ----
\* C16: a stopSession call invoked while Connecting never waits for the
\* session to open (it is never suspended on the promise of connect()), and
\* when it has run to its last line no capture callback is registered.
C16_StopFromConnecting ==
    /\ [](\A i \in 1..Len(stops) :
             stops[i].from = CONNECTING => stops[i].pc # "awaitSession")
    /\ [][(CONNECTING \in last'.doneFrom) => scriptProcessorRef' = 0]_vars

\* ---- C17 ----
\* Where the i-th entry starts in the clipboard text: behind the earlier
\* entries and one separator for each of them.
RECURSIVE OffsetOf(_, _)
OffsetOf(list, i) ==
    IF i = 1 THEN 0 ELSE OffsetOf(list, i - 1) + Len(list[i - 1].text) + 1

\* C17: copy-all hands to the clipboard a text that consists of the texts of
\* the log entries in log order with exactly one newline between consecutive
\* entries and nothing else (the empty text for an empty log), and leaves the
\* log, the Draft and SessionState unchanged.
C17_CopyAllJoinsLog ==
    [][last'.op = "copyAll"
         => LET list == transcriptions
                n == Len(list)
                clip == last'.clipboard
            IN  /\ last'.wrote
                /\ n = 0 => clip = <<>>
                /\ n > 0 => Len(clip) = OffsetOf(list, n) + Len(list[n].text)
                /\ \A i \in 1..n :
                      /\ SubSeq(clip, OffsetOf(list, i) + 1,
                                OffsetOf(list, i) + Len(list[i].text))
                           = list[i].text
                      /\ i < n => clip[OffsetOf(list, i)
                                         + Len(list[i].text) + 1] = "\n"
                /\ UNCHANGED <<transcriptions, currentDraft, appState>>]_vars

\* ---- C18 ----
\* C18: export-document on an empty log offers no file and shows the
\* empty-log notice; on a non-empty log it offers exactly one file; in both
\* cases the log, the Draft, SessionState and the error message are unchanged.
C18_ExportEmptyLogNoFile ==
    [][last'.op = "saveAsWord"
         => /\ transcriptions = <<>>
                 => (last'.files = 0 /\ last'.alert = "nothing-to-save")
            /\ transcriptions # <<>> => last'.files = 1
            /\ UNCHANGED <<transcriptions, currentDraft, appState, errorMessage>>]_vars

\* export-document has just been pressed on an empty log while a Draft is pending.
C18_Witness ==
    /\ last.op = "saveAsWord"
    /\ transcriptions = <<>>
    /\ last.files = 0
    /\ last.alert = "nothing-to-save"
    /\ currentDraft # <<>>

\* ---- C19 ----
\* C19: SessionState changes from Idle to Connecting, and startSession is
\* called, only in a step that handles a press of the toggle: never in one
\* that handles an error, close, open or message event or a settled promise.
C19_NoAutomaticRetry ==
    [][((appState = IDLE /\ appState' = CONNECTING) \/ nStarts' # nStarts)
         => (last'.op = "click" /\ nStarts' = nStarts + 1)]_vars

\* After an error event ended the first session, the user has pressed start again.
C19_Witness ==
    /\ sessions[1].ws = "errored"
    /\ errorMessage = NULL
    /\ last.op = "click"
    /\ last.pre = IDLE
    /\ appState = CONNECTING
    /\ nStarts = 2

\* ---- C20 ----
\* C20: whenever SessionState is Idle the four handles are null, no
\* microphone is live, no audio context is running, no capture callback is
\* connected and no remote session is connecting or open.
C20_IdleHoldsNothing ==
    appState = IDLE
        => /\ AllReleased
           /\ \A k \in Ids : /\ sessions[k].mic # "live"
                             /\ sessions[k].ctx # "running"
                             /\ sessions[k].proc # "connected"
                             /\ sessions[k].ws \notin {"connecting", "open"}

\* ---- C21 ----
\* C21: the stopSession calls that run on when close() of audio context k
\* settles were invoked while session k was the active one; that step never
\* clears a handle that by then belongs to another session, never closes
\* another session, and never changes the SessionState of a session started
\* after k.
C21_StopReleasesOnlyItsSession ==
    [][\A k \in Ids :
          (sessions[k].ctx = "closing" /\ sessions'[k].ctx = "closed")
            => /\ audioContextRef \notin {0, k} => audioContextRef' = audioContextRef
               /\ sessionPromiseRef \notin {0, k} => sessionPromiseRef' = sessionPromiseRef
               /\ \A j \in Ids \ {k} : sessions'[j].ws = sessions[j].ws
               /\ (\E j \in Ids : j > k /\ sessions[j].start = "done")
                    => appState' = appState]_vars

\* ---- C22 ----
\* C22: a capture callback is connected only for a session that opened, and
\* an audio frame is transmitted to a remote session (by the capture callback
\* itself, or when the promise its send waited for resolves) only while
\* SessionState is Listening.
C22_FramesOnlyWhileListening ==
    /\ \A k \in Ids : sessions[k].proc = "connected" => sessions[k].promise = "resolved"
    /\ last.frame = "sent" => last.sentIn = LISTENING

\* ---- C23 ----
\* C23: a stopSession call invoked (by a press of the toggle while Listening
\* or by an error event) while an earlier call is still suspended does not
\* end by an exception, and neither does any call that runs on later; when
\* the last of the overlapping calls has run to its last line every handle is
\* null and SessionState is Idle.
C23_OverlappingStops ==
    [][/\ (stops # <<>> /\ (last'.op = "error"
                              \/ (last'.op = "click" /\ appState = LISTENING)))
            => ~last'.threw
       /\ (Len(stops) > 1 /\ nStarts = 1 /\ stops' = <<>> /\ last'.done)
            => (AllReleased' /\ appState' = IDLE)]_vars

\* ---- C24 ----
\* C24: a message that carries both a fragment and the turn-complete flag
\* queues the updater of the fragment before the turn-complete updater; the
\* render that runs the two commits the trim of (previous Draft followed by
\* that fragment) when that trim is non-empty, commits nothing otherwise, and
\* leaves the Draft empty.
C24_FragmentBeforeTurnComplete ==
    [][/\ (last'.op = "message" /\ last'.hasText /\ last'.defined /\ last'.tc)
            => pending' = pending \o <<Update("append", last'.text, 0),
                                       Update("turn", <<>>, 0)>>
       /\ (last'.op = "render" /\ Len(pending) = 2
            /\ pending[1].kind = "append" /\ pending[2].kind = "turn")
            => LET whole == currentDraft \o pending[1].text
               IN  /\ last'.found = <<whole>>
                   /\ Texts(transcriptions')
                        = Texts(transcriptions)
                            \o (IF Trim(whole) # <<>> THEN <<Trim(whole)>> ELSE <<>>)
                   /\ currentDraft' = <<>>]_vars

\* The updates of a fragment "a" and of a turn-complete have just run on the
\* Draft "a" and committed "aa".
C24_Witness ==
    /\ last.op = "render"
    /\ last.queue = <<Update("append", <<"a">>, 0), Update("turn", <<>>, 0)>>
    /\ last.found = << <<"a", "a">> >>
    /\ transcriptions # <<>>
    /\ transcriptions[Len(transcriptions)].text = <<"a", "a">>
    /\ currentDraft = <<>>

====
